---------------------------- MODULE Spec2Model ----------------------------
(***************************************************************************)
(* A model of scripts/blog_post_optimizer.py (class BlogPostOptimizer).   *)
(*                                                                         *)
(* Text is a sequence of one-character strings.  Numbers that the code     *)
(* holds as floats are held exactly, as integers in the unit of their      *)
(* last kept decimal: a value rounded to one decimal is held in tenths,    *)
(* a keyword density (two decimals) in hundredths of a percent.            *)
(***************************************************************************)
EXTENDS Integers, Sequences, FiniteSets, TLC

VARIABLES
    power_words_file,  \* power_words.json on disk: "missing", "valid", "corrupt"
    nltk,              \* the module global nltk: TRUE when the import succeeded
    punkt,             \* the tokenizers/punkt data can be found
    download_ok,       \* nltk.download('punkt') would fetch the data
    pc,                \* "new", "ready", "returned", "failed"
    power_words_db,    \* self.power_words_db
    op,                \* the method of the call that returned last
    args,              \* the arguments of that call
    raised,            \* the exception that call raised, or "none"
    result,            \* the value that call returned
    calls_left         \* the calls the caller has still to make

vars == <<power_words_file, nltk, punkt, download_ok, pc, power_words_db,
          op, args, raised, result,
          calls_left>>

-----------------------------------------------------------------------------
(* Characters, str methods and the regular-expression pieces the code uses *)

UpperSeq == <<"A", "B", "C", "D", "E", "F", "G", "H", "I", "J", "K", "L", "M",
              "N", "O", "P", "Q", "R", "S", "T", "U", "V", "W", "X", "Y", "Z">>
LowerSeq == <<"a", "b", "c", "d", "e", "f", "g", "h", "i", "j", "k", "l", "m",
              "n", "o", "p", "q", "r", "s", "t", "u", "v", "w", "x", "y", "z">>
DigitSeq == <<"0", "1", "2", "3", "4", "5", "6", "7", "8", "9">>

Letters == {UpperSeq[i] : i \in 1..26} \cup {LowerSeq[i] : i \in 1..26}
Digits == {DigitSeq[i] : i \in 1..10}
\* \w, \s and \d of the re module, on the ASCII characters of the model
WordChars == Letters \cup Digits \cup {"_"}
Whitespace == {" ", "\t", "\n", "\r"}
\* the character ` (a TLA+ string cannot hold it)
Backtick == "BACKTICK"

\* str.lower(), one character
lower_char(c) ==
    IF \E i \in 1..26 : UpperSeq[i] = c
    THEN LowerSeq[CHOOSE i \in 1..26 : UpperSeq[i] = c]
    ELSE c

\* str.lower()
lower(s) == [i \in 1..Len(s) |-> lower_char(s[i])] \o <<>>

Min(a, b) == IF a <= b THEN a ELSE b
Max(a, b) == IF a >= b THEN a ELSE b

\* the elements of S within a..b, ascending
RECURSIVE Ascending(_, _, _)
Ascending(S, a, b) ==
    IF a > b THEN <<>>
    ELSE IF a = b THEN (IF a \in S THEN <<a>> ELSE <<>>)
    ELSE LET m == (a + b) \div 2
         IN  Ascending(S, a, m) \o Ascending(S, m + 1, b)

\* f[a] + ... + f[b]
RECURSIVE Sum(_, _, _)
Sum(f, a, b) ==
    IF a > b THEN 0
    ELSE IF a = b THEN f[a]
    ELSE LET m == (a + b) \div 2
         IN  Sum(f, a, m) + Sum(f, m + 1, b)

\* the concatenation of the sequences parts[a..b]
RECURSIVE Concat(_, _, _)
Concat(parts, a, b) ==
    IF a > b THEN <<>>
    ELSE IF a = b THEN parts[a]
    ELSE LET m == (a + b) \div 2
         IN  Concat(parts, a, m) \o Concat(parts, m + 1, b)

\* the sum of f over the finite set S
RECURSIVE SumSet(_, _)
SumSet(f, S) ==
    IF S = {} THEN 0
    ELSE LET x == CHOOSE y \in S : TRUE
         IN  f[x] + SumSet(f, S \ {x})

\* the literal w occurs in s from index i on
LiteralAt(s, w, i) ==
    /\ i >= 1
    /\ i + Len(w) - 1 <= Len(s)
    /\ \A k \in 1..Len(w) : s[i + k - 1] = w[k]

\* \b between s[p] and s[p+1] (p = 0: the start, p = Len(s): the end)
WordBoundary(s, p) ==
    (p >= 1 /\ s[p] \in WordChars) # (p < Len(s) /\ s[p + 1] \in WordChars)

\* ^ under re.MULTILINE right before s[i]
LineStart(s, i) == i = 1 \/ (i >= 2 /\ i <= Len(s) + 1 /\ s[i - 1] = "\n")

\* where a greedy run of characters of the class C that starts at i stops:
\* the index of the first character from i on that is not in C
RunEnd(s, C, i) ==
    IF \E j \in i..Len(s) : s[j] \notin C
    THEN CHOOSE j \in i..Len(s) : s[j] \notin C /\ \A k \in i..(j - 1) : s[k] \in C
    ELSE Len(s) + 1

\* re.findall counts matches left to right without overlap.  M is the set of
\* <<start, end>> of the match the pattern has at each start (end: the index
\* after the match); the scan resumes at the end of a match, one further
\* after an empty match.
RECURSIVE ScanCount(_, _)
ScanCount(M, pos) ==
    LET C == {m \in M : m[1] >= pos}
    IN  IF C = {} THEN 0
        ELSE LET m == CHOOSE x \in C : \A y \in C : x[1] <= y[1]
             IN  1 + ScanCount(C, IF m[2] > m[1] THEN m[2] ELSE m[1] + 1)

\* no match of M starts inside another one: the scan then meets them all
Disjoint(M) ==
    LET starts == {m[1] : m \in M}
    IN  \A m \in M : \A j \in (m[1] + 1)..(m[2] - 1) : j \notin starts

FindAllCount(M, pos) ==
    IF Disjoint(M) THEN Cardinality({m \in M : m[1] >= pos}) ELSE ScanCount(M, pos)

\* r'\b' + re.escape(word) + r'\b' matches in s from index j on
WholeWordAt(s, word, j) ==
    /\ LiteralAt(s, word, j)
    /\ WordBoundary(s, j - 1)
    /\ WordBoundary(s, j + Len(word) - 1)

\* the matches of r'\b' + re.escape(word) + r'\b' in s
WholeWordMatches(s, word) ==
    {<<i, i + Len(word)>> : i \in {j \in 1..(Len(s) + 1) : WholeWordAt(s, word, j)}}

\* re.search(r'\b' + re.escape(word) + r'\b', s)
SearchWholeWord(s, word) == \E j \in 1..(Len(s) + 1) : WholeWordAt(s, word, j)

\* re.search(r'\d+', s)
SearchDigits(s) == \E i \in 1..Len(s) : s[i] \in Digits

\* s[:n]
Prefix(s, n) == SubSeq(s, 1, Min(n, Len(s)))

\* str.split(): the maximal runs of non-whitespace characters
WordStarts(s) ==
    {i \in 1..Len(s) : s[i] \notin Whitespace /\ (i = 1 \/ s[i - 1] \in Whitespace)}

\* the index of the first character from i on that is in C
FindChar(s, C, i) ==
    IF \E j \in i..Len(s) : s[j] \in C
    THEN CHOOSE j \in i..Len(s) : s[j] \in C /\ \A k \in i..(j - 1) : s[k] \notin C
    ELSE Len(s) + 1

split(s) ==
    LET st == Ascending(WordStarts(s), 1, Len(s))
    IN  [k \in 1..Len(st) |-> SubSeq(s, st[k], FindChar(s, Whitespace, st[k]) - 1)]

\* len(s.split())
WordCount(s) == Cardinality(WordStarts(s))

\* str.strip()
strip(s) ==
    LET keep == {i \in 1..Len(s) : s[i] \notin Whitespace}
    IN  IF keep = {} THEN <<>>
        ELSE SubSeq(s, CHOOSE i \in keep : \A j \in keep : i <= j,
                       CHOOSE i \in keep : \A j \in keep : i >= j)

\* sep.join(parts)
join(sep, parts) ==
    Concat([k \in 1..Len(parts) |-> IF k = 1 THEN parts[k] ELSE sep \o parts[k]],
           1, Len(parts))

\* the occurrences str.split(sep) cuts at: those of S (the indices where sep,
\* of length n, occurs) taken left to right without overlap, from pos on
RECURSIVE NonOverlapping(_, _, _)
NonOverlapping(S, n, pos) ==
    LET C == {i \in S : i >= pos}
    IN  IF C = {} THEN <<>>
        ELSE LET i == CHOOSE x \in C : \A y \in C : x <= y
             IN  <<i>> \o NonOverlapping(C, n, i + n)

\* as if the empty pieces were dropped: [p for p in s.split(sep) if p]
SplitOnNonEmpty(s, sep) ==
    LET at == NonOverlapping({i \in 1..Len(s) : LiteralAt(s, sep, i)}, Len(sep), 1)
        n == Len(at)
        pieces == [k \in 1..(n + 1) |->
                     SubSeq(s, IF k = 1 THEN 1 ELSE at[k - 1] + Len(sep),
                               IF k = n + 1 THEN Len(s) ELSE at[k] - 1)]
        kept == Ascending({k \in 1..(n + 1) : pieces[k] # <<>>}, 1, n + 1)
    IN  [k \in 1..Len(kept) |-> pieces[kept[k]]]

\* s.split(sep): the pieces between the occurrences of sep
split_on(s, sep) ==
    LET at == NonOverlapping({i \in 1..Len(s) : LiteralAt(s, sep, i)}, Len(sep), 1)
        n == Len(at)
    IN  [k \in 1..(n + 1) |->
            SubSeq(s, IF k = 1 THEN 1 ELSE at[k - 1] + Len(sep),
                      IF k = n + 1 THEN Len(s) ELSE at[k] - 1)]

\* str(n) for n >= 0
RECURSIVE str(_)
str(n) == IF n < 10 THEN <<DigitSeq[n + 1]>>
          ELSE str(n \div 10) \o <<DigitSeq[(n % 10) + 1]>>

\* round(p / q) to the nearest integer, ties to the even one (q > 0, p >= 0):
\* what Python's round() gives
RoundHalfEven(p, q) ==
    LET f == p \div q
        r == p % q
    IN  IF 2 * r < q THEN f
        ELSE IF 2 * r > q THEN f + 1
        ELSE IF f % 2 = 0 THEN f ELSE f + 1

-----------------------------------------------------------------------------
(* The power-word dictionary *)

w_now == <<"n", "o", "w">>
w_today == <<"t", "o", "d", "a", "y">>
w_fast == <<"f", "a", "s", "t">>
w_quick == <<"q", "u", "i", "c", "k">>
w_best == <<"b", "e", "s", "t">>
w_proven == <<"p", "r", "o", "v", "e", "n">>
w_ultimate == <<"u", "l", "t", "i", "m", "a", "t", "e">>
w_essential == <<"e", "s", "s", "e", "n", "t", "i", "a", "l">>
w_secret == <<"s", "e", "c", "r", "e", "t">>
w_discover == <<"d", "i", "s", "c", "o", "v", "e", "r">>
w_revealed == <<"r", "e", "v", "e", "a", "l", "e", "d">>
w_truth == <<"t", "r", "u", "t", "h">>
w_Free == <<"F", "r", "e", "e">>

\* the fallback database of _load_power_words
DefaultPowerWords ==
    [urgency |-> <<w_now, w_today, w_fast, w_quick>>,
     value |-> <<w_best, w_proven, w_ultimate, w_essential>>,
     curiosity |-> <<w_secret, w_discover, w_revealed, w_truth>>]

\* what json.load gives for a well-formed power_words.json: some mapping from
\* category to list of words.  This one lists a word under two categories
\* and has a word that is not in lower case.
FilePowerWords ==
    [urgency |-> <<w_now, w_today>>,
     value |-> <<w_best, w_today>>,
     trust |-> <<w_proven, w_Free>>]

\* self.power_words_db before _load_power_words has set it
Unset == [none |-> TRUE]

-----------------------------------------------------------------------------
(* analyze_headline *)

CompleteGuide == <<" ", "-", " ", "C", "o", "m", "p", "l", "e", "t", "e", " ", "G", "u", "i", "d", "e">>
UltimateGuideTo == <<"T", "h", "e", " ", "U", "l", "t", "i", "m", "a", "t", "e", " ", "G", "u", "i", "d", "e", " ", "t", "o", " ">>
EssentialTips == <<"1", "0", " ", "E", "s", "s", "e", "n", "t", "i", "a", "l", " ", "T", "i", "p", "s", ":", " ">>

\* min(score, 100), the 'score' of the headline and of the SEO result
Uncapped(score) == score
Capped(score) == Min(score, 100)

\* the score for the character count (50-60 is ideal)
LengthScore(char_count) ==
    IF 50 <= char_count /\ char_count <= 60 THEN 30
    ELSE IF 40 <= char_count /\ char_count <= 70 THEN 20
    ELSE 10

\* len(power_words_found): one entry per word of a category that is found in
\* the lower-cased headline, over all categories
PowerWordsFoundCount(db, headline_lower) ==
    SumSet([c \in DOMAIN db |->
               Cardinality({k \in 1..Len(db[c]) :
                               SearchWholeWord(headline_lower, db[c][k])})],
           DOMAIN db)

\* set(power_words_found)
PowerWordsFound(db, headline_lower) ==
    {w \in UNION {{db[c][k] : k \in 1..Len(db[c])} : c \in DOMAIN db} :
        SearchWholeWord(headline_lower, w)}

\* as if the cap of 40 were set on each category
PowerWordScorePerCategory(db, headline_lower) ==
    SumSet([c \in DOMAIN db |->
               Min(15 * Cardinality({k \in 1..Len(db[c]) :
                                        SearchWholeWord(headline_lower, db[c][k])}), 40)],
           DOMAIN db)

\* min(len(power_words_found) * 15, 40)
PowerWordScore(db, headline_lower) ==
    Min(PowerWordsFoundCount(db, headline_lower) * 15, 40)

HeadlineSuggestions(headline, found) ==
    (IF Len(headline) < 50 THEN <<headline \o CompleteGuide>> ELSE <<>>)
    \o (IF found = 0 THEN <<UltimateGuideTo \o headline>> ELSE <<>>)
    \o (IF ~SearchDigits(headline) THEN <<EssentialTips \o headline>> ELSE <<>>)

analyze_headline(db, headline) ==
    LET char_count == Len(headline)
        headline_lower == lower(headline)
        found == PowerWordsFoundCount(db, headline_lower)
        score == LengthScore(char_count)
                 + PowerWordScore(db, headline_lower)
                 + (IF SearchDigits(headline) THEN 15 ELSE 0)
                 + (IF \E i \in 1..Len(headline) : headline[i] = "?" THEN 10 ELSE 0)
    IN  [score |-> Capped(score),
         character_count |-> char_count,
         power_words |-> PowerWordsFound(db, headline_lower),
         emotional_impact |-> Min(found * 20, 100),
         suggestions |-> Prefix(HeadlineSuggestions(headline, found), 3)]

-----------------------------------------------------------------------------
(* Sentences *)

\* The code asks "sent_tokenize(text) if nltk else text.split('. ')".
\* sent_tokenize needs the punkt data and raises LookupError without it.
SentTokenizeRaises == nltk /\ ~punkt

\* nltk's sent_tokenize is a library outside this repository.  It is taken
\* here to end a sentence at ".", "!" or "?" followed by whitespace, to
\* strip the sentences, and to give no sentence for blank text.
sent_tokenize(text) ==
    LET ends == {i \in 1..(Len(text) - 1) :
                    text[i] \in {".", "!", "?"} /\ text[i + 1] \in Whitespace}
        at == Ascending(ends, 1, Len(text))
        n == Len(at)
        pieces == [k \in 1..(n + 1) |->
                     strip(SubSeq(text, IF k = 1 THEN 1 ELSE at[k - 1] + 1,
                                        IF k = n + 1 THEN Len(text) ELSE at[k]))]
        kept == Ascending({k \in 1..(n + 1) : pieces[k] # <<>>}, 1, n + 1)
    IN  [k \in 1..Len(kept) |-> pieces[kept[k]]]

PeriodSpace == <<".", " ">>

\* sent_tokenize(text) if nltk else text.split('. ')
Sentences(text) == IF nltk THEN sent_tokenize(text) ELSE split_on(text, PeriodSpace)

\* [p.strip() for p in content.split('\n\n') if p.strip()]
Paragraphs(content) ==
    LET pieces == split_on(content, <<"\n", "\n">>)
        kept == Ascending({k \in 1..Len(pieces) : strip(pieces[k]) # <<>>},
                          1, Len(pieces))
    IN  [k \in 1..Len(kept) |-> strip(pieces[kept[k]])]

-----------------------------------------------------------------------------
(* analyze_seo *)

\* len(re.findall(r'\b' + re.escape(keyword_lower) + r'\b', content_lower))
KeywordCount(content_lower, keyword_lower) ==
    FindAllCount(WholeWordMatches(content_lower, keyword_lower), 1)

\* as if the ideal range were open: 1 < density < 2
DensityScoreOpen(count, word_count) ==
    IF word_count > 0 /\ word_count < 100 * count /\ 100 * count < 2 * word_count
    THEN 30
    ELSE IF word_count > 0 /\ word_count <= 200 * count
                             /\ 100 * count <= 3 * word_count
    THEN 20
    ELSE 10

\* the score for one keyword, whose density is count / word_count * 100, or
\* 0 when there is no word (1-2% is ideal)
DensityScore(count, word_count) ==
    IF word_count > 0 /\ word_count <= 100 * count /\ 100 * count <= 2 * word_count
    THEN 30
    ELSE IF word_count > 0 /\ word_count <= 200 * count
                             /\ 100 * count <= 3 * word_count
    THEN 20
    ELSE 10

\* round(density, 2), in hundredths of a percent
RoundedDensity(count, word_count) ==
    IF word_count > 0 THEN RoundHalfEven(count * 10000, word_count) ELSE 0

\* ' '.join(content_lower.split()[:100])
First100Words(content_lower) == join(<<" ">>, Prefix(split(content_lower), 100))

\* any(re.search(r'\b' + re.escape(kw.lower()) + r'\b', first_100_words) ...)
KeywordProminence(content_lower, keywords) ==
    LET first_100_words == First100Words(content_lower)
    IN  \E k \in 1..Len(keywords) : SearchWholeWord(first_100_words, lower(keywords[k]))

MetaDescription(sentences) ==
    LET first == IF Len(sentences) > 0 THEN sentences[1] ELSE <<>>
    IN  IF Len(first) > 160 THEN Prefix(first, 157) \o <<".", ".", ".">> ELSE first

analyze_seo(content, keywords) ==
    LET content_lower == lower(content)
        word_count == WordCount(content)
        count == [k \in 1..Len(keywords) |->
                     KeywordCount(content_lower, lower(keywords[k]))]
        keyword_prominence == KeywordProminence(content_lower, keywords)
        score == Sum([k \in 1..Len(keywords) |-> DensityScore(count[k], word_count)],
                     1, Len(keywords))
                 + (IF keyword_prominence THEN 20 ELSE 0)
        primary_keyword == IF Len(keywords) > 0 THEN keywords[1] ELSE <<>>
    IN  [score |-> Capped(score),
         keyword_density |->
             [kw \in {keywords[k] : k \in 1..Len(keywords)} |->
                 RoundedDensity(KeywordCount(content_lower, lower(kw)), word_count)],
         keyword_prominence |-> keyword_prominence,
         meta_description |-> MetaDescription(Sentences(content)),
         title_tag |-> Prefix(primary_keyword \o CompleteGuide, 60),
         url_slug |-> join(<<"-">>, Prefix(split(lower(primary_keyword)), 5))]

-----------------------------------------------------------------------------
(* analyze_structure *)

\* as if the pattern were r'#{n}\s+', without the ^
HeadingMatchesAnywhere(content, n) ==
    {<<i, RunEnd(content, Whitespace, i + n)>> : i \in {j \in 1..Len(content) :
        /\ j + n <= Len(content)
        /\ \A k \in 0..(n - 1) : content[j + k] = "#"
        /\ content[j + n] \in Whitespace}}

\* the matches of r'^#{n}\s+' under re.MULTILINE (n hashes: r'^#\s+',
\* r'^##\s+', r'^###\s+')
HeadingMatches(content, n) ==
    {<<i, RunEnd(content, Whitespace, i + n)>> : i \in {j \in 1..Len(content) :
        /\ LineStart(content, j)
        /\ j + n <= Len(content)
        /\ \A k \in 0..(n - 1) : content[j + k] = "#"
        /\ content[j + n] \in Whitespace}}

\* len(re.findall(r'^#{n}\s+', content, re.MULTILINE))
HeadingCount(content, n) == FindAllCount(HeadingMatches(content, n), 1)

\* the matches of r'^\s*[-*+]\s+' under re.MULTILINE
BulletMatches(content) ==
    {<<i, RunEnd(content, Whitespace, RunEnd(content, Whitespace, i) + 1)>> :
        i \in {j \in 1..Len(content) :
            /\ LineStart(content, j)
            /\ LET b == RunEnd(content, Whitespace, j)
               IN  /\ b + 1 <= Len(content)
                   /\ content[b] \in {"-", "*", "+"}
                   /\ content[b + 1] \in Whitespace}}

\* the matches of r'^\s*\d+\.\s+' under re.MULTILINE
NumberedMatches(content) ==
    {<<i, RunEnd(content, Whitespace,
                 RunEnd(content, Digits, RunEnd(content, Whitespace, i)) + 1)>> :
        i \in {j \in 1..Len(content) :
            /\ LineStart(content, j)
            /\ LET d == RunEnd(content, Whitespace, j)
                   e == RunEnd(content, Digits, d)
               IN  /\ e > d
                   /\ e + 1 <= Len(content)
                   /\ content[e] = "."
                   /\ content[e + 1] \in Whitespace}}

ListCount(content) ==
    FindAllCount(BulletMatches(content), 1) + FindAllCount(NumberedMatches(content), 1)

MissingH1 == <<"M", "i", "s", "s", "i", "n", "g", " ", "H", "1", " ", "h", "e", "a", "d", "i", "n", "g">>
MultipleH1 == <<"M", "u", "l", "t", "i", "p", "l", "e", " ", "H", "1", " ", "h", "e", "a", "d", "i", "n", "g", "s", " ", "(">>
ParagraphsTooLong == <<"P", "a", "r", "a", "g", "r", "a", "p", "h", "s", " ", "t", "o", "o", " ", "l", "o", "n", "g", " ", "(", "a", "v", "g", " ">>
SentencesClose == <<" ", "s", "e", "n", "t", "e", "n", "c", "e", "s", ")">>

\* f"{x:.1f}" for x = tenths / 10
FormatTenths(tenths) == str(tenths \div 10) \o <<".">> \o str(tenths % 10)

analyze_structure(content) ==
    LET h1_count == HeadingCount(content, 1)
        h2_count == HeadingCount(content, 2)
        h3_count == HeadingCount(content, 3)
        paragraphs == Len(Paragraphs(content))
        sentences == Len(Sentences(content))
        \* avg_paragraph_length is sentences / paragraphs, or 0 without paragraphs
        avg_tenths == IF paragraphs > 0 THEN RoundHalfEven(10 * sentences, paragraphs)
                      ELSE 0
        list_count == ListCount(content)
        score == 70
                 + (IF h1_count = 1 THEN 10 ELSE IF h1_count = 0 THEN -10 ELSE -5)
                 + (IF paragraphs > 0 /\ 3 * paragraphs <= sentences
                                     /\ sentences <= 5 * paragraphs THEN 10 ELSE 0)
                 + (IF list_count > 0 THEN 10 ELSE 0)
        warnings ==
            (IF h1_count = 1 THEN <<>>
             ELSE IF h1_count = 0 THEN <<MissingH1>>
             ELSE <<MultipleH1 \o str(h1_count) \o <<")">> >>)
            \o (IF paragraphs > 0 /\ ~(3 * paragraphs <= sentences
                                        /\ sentences <= 5 * paragraphs)
                                 /\ sentences > 8 * paragraphs
                THEN <<ParagraphsTooLong \o FormatTenths(avg_tenths) \o SentencesClose>>
                ELSE <<>>)
    IN  [score |-> Min(Max(score, 0), 100),
         h1_count |-> h1_count,
         h2_count |-> h2_count,
         h3_count |-> h3_count,
         avg_paragraph_length |-> avg_tenths,
         list_count |-> list_count,
         warnings |-> warnings]

-----------------------------------------------------------------------------
(* analyze_readability, _count_syllables, calculate_content_stats *)

\* re.sub(r'[...]', '', text) for the character class C
RemoveChars(text, C) ==
    LET kept == Ascending({i \in 1..Len(text) : text[i] \notin C}, 1, Len(text))
    IN  [k \in 1..Len(kept) |-> text[kept[k]]] \o <<>>

\* re.sub(r'\n+', ' ', text)
CollapseNewlines(text) ==
    LET kept == Ascending({i \in 1..Len(text) :
                             text[i] # "\n" \/ i = 1 \/ text[i - 1] # "\n"},
                          1, Len(text))
    IN  [k \in 1..Len(kept) |-> IF text[kept[k]] = "\n" THEN " " ELSE text[kept[k]]]
        \o <<>>

Vowels == {"a", "e", "i", "o", "u", "y"}

\* the loop of _count_syllables from character i on, with the count and
\* prev_was_vowel it has reached
RECURSIVE SyllableLoop(_, _, _, _)
SyllableLoop(word, i, count, prev_was_vowel) ==
    IF i > Len(word) THEN count
    ELSE LET is_vowel == word[i] \in Vowels
         IN  SyllableLoop(word, i + 1,
                          IF is_vowel /\ ~prev_was_vowel THEN count + 1 ELSE count,
                          is_vowel)

\* as if the count were returned without max(1, count)
CountSyllablesUnfloored(w) ==
    LET word == lower(w)
        count == SyllableLoop(word, 1, 0, FALSE)
    IN  IF Len(word) > 0 /\ word[Len(word)] = "e" THEN count - 1 ELSE count

_count_syllables(w) ==
    LET word == lower(w)
        count == SyllableLoop(word, 1, 0, FALSE)
        adjusted == IF Len(word) > 0 /\ word[Len(word)] = "e" THEN count - 1 ELSE count
    IN  Max(1, adjusted)

\* the matches of r'\b(was|were|been|being)\s+\w+ed\b' under re.IGNORECASE:
\* the auxiliary, whitespace, and a run of word characters that ends in "ed"
PassiveAuxiliaries ==
    {<<"w", "a", "s">>, <<"w", "e", "r", "e">>, <<"b", "e", "e", "n">>,
     <<"b", "e", "i", "n", "g">>}

PassiveMatches(text) ==
    LET low == lower(text)
        WordAfter(j, aux) == RunEnd(low, Whitespace, j + Len(aux))
        Stop(j, aux) == RunEnd(low, WordChars, WordAfter(j, aux))
    IN  {<<m[1], Stop(m[1], m[2])>> : m \in {x \in (1..Len(low)) \X PassiveAuxiliaries :
            /\ LiteralAt(low, x[2], x[1])
            /\ WordBoundary(low, x[1] - 1)
            /\ x[1] + Len(x[2]) <= Len(low)
            /\ low[x[1] + Len(x[2])] \in Whitespace
            /\ Stop(x[1], x[2]) - WordAfter(x[1], x[2]) >= 3
            /\ low[Stop(x[1], x[2]) - 2] = "e"
            /\ low[Stop(x[1], x[2]) - 1] = "d"}}

\* x clamped to 0..100 and rounded to one decimal, in tenths, for x = p / q
ClampedTenths(p, q) ==
    IF p <= 0 THEN 0
    ELSE IF p >= 100 * q THEN 1000
    ELSE 10 * (p \div q) + RoundHalfEven(10 * (p % q), q)

\* Flesch Reading Ease, 206.835 - 1.015 (words / sentences)
\* - 84.6 (syllables / words), as the fraction ReadingEaseNum / ReadingEaseDen
ReadingEaseNum(words, sentences, syllables) ==
    41367 * sentences * words - 203 * words * words - 16920 * syllables * sentences
ReadingEaseDen(words, sentences) == 200 * sentences * words

\* Flesch-Kincaid Grade, 0.39 (words / sentences) + 11.8 (syllables / words)
\* - 15.59, as the fraction GradeNum / GradeDen
GradeNum(words, sentences, syllables) ==
    39 * words * words + 1180 * syllables * sentences - 1559 * sentences * words
GradeDen(words, sentences) == 100 * sentences * words

\* as if the brackets were left in, as calculate_content_stats leaves them
CleanKeepingBrackets(content) ==
    CollapseNewlines(RemoveChars(content, {"#", "*", Backtick}))

\* clean_text: the markdown characters removed, newlines made spaces
CleanForReadability(content) ==
    CollapseNewlines(RemoveChars(content, {"#", "*", Backtick, "[", "]"}))

\* as if 100 - reading_ease were cut to an integer, not rounded
ComplexityTruncated(p, q) ==
    IF p <= 0 THEN 100
    ELSE IF p >= 100 * q THEN 0
    ELSE (100 * q - p) \div q

\* round(100 - reading_ease, 0) for the reading ease p / q clamped to
\* 0..100, before its own rounding to one decimal
ComplexityScore(p, q) ==
    IF p <= 0 THEN 100
    ELSE IF p >= 100 * q THEN 0
    ELSE RoundHalfEven(100 * q - p, q)

analyze_readability(content) ==
    LET clean_text == CleanForReadability(content)
        sentence_count == Len(Sentences(clean_text))
        words == split(clean_text)
        word_count == Len(words)
        syllable_count == Sum([k \in 1..word_count |-> _count_syllables(words[k])],
                              1, word_count)
        measurable == sentence_count > 0 /\ word_count > 0
        ease_num == ReadingEaseNum(word_count, sentence_count, syllable_count)
        ease_den == ReadingEaseDen(word_count, sentence_count)
        grade_num == GradeNum(word_count, sentence_count, syllable_count)
        grade_den == GradeDen(word_count, sentence_count)
        passive_voice_count == FindAllCount(PassiveMatches(clean_text), 1)
    IN  [flesch_kincaid_grade |->
             IF measurable /\ grade_num > 0
             THEN 10 * (grade_num \div grade_den)
                  + RoundHalfEven(10 * (grade_num % grade_den), grade_den)
             ELSE 0,
         reading_ease |->
             IF measurable THEN ClampedTenths(ease_num, ease_den) ELSE 0,
         avg_sentence_length |->
             IF sentence_count > 0 THEN RoundHalfEven(10 * word_count, sentence_count)
             ELSE 0,
         passive_voice_pct |->
             IF sentence_count > 0
             THEN RoundHalfEven(1000 * passive_voice_count, sentence_count)
             ELSE 0,
         complexity_score |->
             IF measurable THEN ComplexityScore(ease_num, ease_den) ELSE 100]

calculate_content_stats(content) ==
    LET clean_text == RemoveChars(content, {"#", "*", Backtick})
        word_count == WordCount(clean_text)
    IN  [word_count |-> word_count,
         reading_time_minutes |-> Max(1, word_count \div 265),
         character_count |-> Len(content),
         sentence_count |-> Len(Sentences(clean_text)),
         paragraph_count |-> Len(Paragraphs(content))]

-----------------------------------------------------------------------------
(* generate_meta_tags and the aggregation of analyze_full *)

TagArticle == <<"a", "r", "t", "i", "c", "l", "e">>
TagLocale == <<"e", "n", "_", "U", "S">>
TagCard == <<"s", "u", "m", "m", "a", "r", "y", "_", "l", "a", "r", "g", "e", "_", "i", "m", "a", "g", "e">>
TagContext == <<"h", "t", "t", "p", "s", ":", "/", "/", "s", "c", "h", "e", "m", "a", ".", "o", "r", "g">>
TagType == <<"A", "r", "t", "i", "c", "l", "e">>
High == <<"h", "i", "g", "h">>
Medium == <<"m", "e", "d", "i", "u", "m">>
Low == <<"l", "o", "w">>
HeadlineIssue == <<"H", "e", "a", "d", "l", "i", "n", "e", " ", "n", "e", "e", "d", "s", " ", "i", "m", "p", "r", "o", "v", "e", "m", "e", "n", "t">>
TryPrefix == <<"T", "r", "y", ":", " ">>
HeadlineAdvice == <<"A", "d", "d", " ", "p", "o", "w", "e", "r", " ", "w", "o", "r", "d", "s", " ", "a", "n", "d", " ", "n", "u", "m", "b", "e", "r", "s">>
KeywordIssue == <<"K", "e", "y", "w", "o", "r", "d", "s", " ", "n", "o", "t", " ", "i", "n", " ", "f", "i", "r", "s", "t", " ", "1", "0", "0", " ", "w", "o", "r", "d", "s">>
KeywordFix == <<"I", "n", "c", "l", "u", "d", "e", " ", "p", "r", "i", "m", "a", "r", "y", " ", "k", "e", "y", "w", "o", "r", "d", " ", "i", "n", " ", "i", "n", "t", "r", "o", "d", "u", "c", "t", "i", "o", "n">>
H1Issue == <<"H", "1", " ", "c", "o", "u", "n", "t", " ", "i", "s", " ">>
H1Fix == <<"U", "s", "e", " ", "e", "x", "a", "c", "t", "l", "y", " ", "o", "n", "e", " ", "H", "1", " ", "h", "e", "a", "d", "i", "n", "g">>
ComplexIssue == <<"C", "o", "n", "t", "e", "n", "t", " ", "i", "s", " ", "t", "o", "o", " ", "c", "o", "m", "p", "l", "e", "x">>
ComplexFix == <<"S", "i", "m", "p", "l", "i", "f", "y", " ", "s", "e", "n", "t", "e", "n", "c", "e", "s", " ", "a", "n", "d", " ", "u", "s", "e", " ", "s", "h", "o", "r", "t", "e", "r", " ", "w", "o", "r", "d", "s">>
ShortIssue == <<"C", "o", "n", "t", "e", "n", "t", " ", "i", "s", " ", "t", "o", "o", " ", "s", "h", "o", "r", "t">>
ShortFix == <<"A", "i", "m", " ", "f", "o", "r", " ", "a", "t", " ", "l", "e", "a", "s", "t", " ", "1", "0", "0", "0", " ", "w", "o", "r", "d", "s", " ", "f", "o", "r", " ", "S", "E", "O">>

generate_meta_tags(title, description, keywords) ==
    [open_graph |->
         [k \in {"og:title", "og:description", "og:type", "og:locale"} |->
             CASE k = "og:title" -> title
               [] k = "og:description" -> description
               [] k = "og:type" -> TagArticle
               [] k = "og:locale" -> TagLocale],
     twitter_card |->
         [k \in {"twitter:card", "twitter:title", "twitter:description"} |->
             CASE k = "twitter:card" -> TagCard
               [] k = "twitter:title" -> title
               [] k = "twitter:description" -> description],
     schema_org |->
         [k \in {"@context", "@type", "headline", "description", "keywords"} |->
             CASE k = "@context" -> TagContext
               [] k = "@type" -> TagType
               [] k = "headline" -> title
               [] k = "description" -> description
               [] k = "keywords" -> join(<<",", " ">>, keywords)]]

\* as if halves were rounded up
OverallScoreHalfUp(headline_score, seo_score, structure_score, complexity_score) ==
    (2 * headline_score + 3 * seo_score + 2 * structure_score
     + 3 * (100 - complexity_score) + 5) \div 10

\* round(overall_score, 0) of headline * 0.2 + seo * 0.3 + structure * 0.2
\* + (100 - complexity) * 0.3: the sum is 'tenths' tenths
OverallScore(headline_score, seo_score, structure_score, complexity_score) ==
    LET tenths == 2 * headline_score + 3 * seo_score + 2 * structure_score
                  + 3 * (100 - complexity_score)
    IN  RoundHalfEven(tenths, 10)

\* as if the test were score <= 70
HeadlineRecommendationAt70(headline_analysis) ==
    IF headline_analysis.score <= 70
    THEN <<[priority |-> High, issue |-> HeadlineIssue,
            fix |-> IF Len(headline_analysis.suggestions) > 0
                    THEN TryPrefix \o headline_analysis.suggestions[1]
                    ELSE HeadlineAdvice]>>
    ELSE <<>>

HeadlineRecommendation(headline_analysis) ==
    IF headline_analysis.score < 70
    THEN <<[priority |-> High, issue |-> HeadlineIssue,
            fix |-> IF Len(headline_analysis.suggestions) > 0
                    THEN TryPrefix \o headline_analysis.suggestions[1]
                    ELSE HeadlineAdvice]>>
    ELSE <<>>

KeywordRecommendation(seo_analysis) ==
    IF ~seo_analysis.keyword_prominence
    THEN <<[priority |-> High, issue |-> KeywordIssue, fix |-> KeywordFix]>>
    ELSE <<>>

H1Recommendation(structure_analysis) ==
    IF structure_analysis.h1_count # 1
    THEN <<[priority |-> Medium, issue |-> H1Issue \o str(structure_analysis.h1_count),
            fix |-> H1Fix]>>
    ELSE <<>>

\* flesch_kincaid_grade is held in tenths
ComplexityRecommendation(readability_analysis) ==
    IF readability_analysis.flesch_kincaid_grade > 120
    THEN <<[priority |-> Medium, issue |-> ComplexIssue, fix |-> ComplexFix]>>
    ELSE <<>>

LengthRecommendation(stats) ==
    IF stats.word_count < 300
    THEN <<[priority |-> Low, issue |-> ShortIssue, fix |-> ShortFix]>>
    ELSE <<>>

\* analyze_full once the five analyses are made
FullReport(headline_analysis, seo_analysis, structure_analysis, readability_analysis, stats) ==
    [overall_score |-> OverallScore(headline_analysis.score, seo_analysis.score,
                                    structure_analysis.score,
                                    readability_analysis.complexity_score),
     headline |-> headline_analysis,
     seo |-> seo_analysis,
     structure |-> structure_analysis,
     readability |-> readability_analysis,
     stats |-> stats,
     recommendations |->
         HeadlineRecommendation(headline_analysis)
         \o KeywordRecommendation(seo_analysis)
         \o H1Recommendation(structure_analysis)
         \o ComplexityRecommendation(readability_analysis)
         \o LengthRecommendation(stats)]

-----------------------------------------------------------------------------
(* Construction *)

\* _load_power_words: json.load raises JSONDecodeError on a malformed file,
\* and only FileNotFoundError is caught
_load_power_words(file) ==
    CASE file = "missing" -> [raised |-> "none", db |-> DefaultPowerWords]
      [] file = "valid" -> [raised |-> "none", db |-> FilePowerWords]
      [] file = "corrupt" -> [raised |-> "JSONDecodeError", db |-> Unset]

\* _ensure_nltk_data: whether the punkt data can be found afterwards
_ensure_nltk_data(has_nltk, has_punkt, can_download) ==
    IF ~has_nltk THEN has_punkt
    ELSE IF has_punkt THEN TRUE
    ELSE can_download

-----------------------------------------------------------------------------
(* The inputs of the calls *)

MaxHeadlineParts == 3
MaxLines == 2
MaxKeywords == 3

\* the sequences of at most n elements of S
SeqsUpTo(S, n) == UNION {[1..k -> S] : k \in 0..n}

\* n copies of w
RECURSIVE Rep(_, _)
Rep(w, n) ==
    IF n = 0 THEN <<>>
    ELSE IF n = 1 THEN w
    ELSE LET h == Rep(w, n \div 2)
         IN  IF n % 2 = 0 THEN h \o h ELSE h \o h \o w

\* a headline is up to MaxHeadlineParts of these parts, joined by spaces; the
\* first is 44 characters long, so that lengths fall in each tier
HeadlineParts ==
    {Rep(<<"x">>, 44),
     <<"t", "o", "d", "a", "y", " ", "f", "a", "s", "t">>,
     <<"S", "e", "c", "r", "e", "t">>,
     <<"7">>,
     <<"f", "r", "e", "e", " ", "f", "a", "s", "t", "e", "s", "t", "?">>}

Headlines == {join(<<" ">>, parts) : parts \in SeqsUpTo(HeadlineParts, MaxHeadlineParts)}

\* a short content is up to MaxLines of these lines, joined by newlines
Lines ==
    {<<>>,
     <<"#", " ", "a">>,
     <<"#", "#", " ", "A">>,
     <<"#", "#", "#", " ", "a">>,
     <<"#", "#", "#", "#", " ", "a">>,
     <<"#", "a">>,
     <<" ", "#", " ", "a">>,
     <<"#">>,
     <<"-", " ", "s", "e", "o", ".", " ", "a", "b", "a", "b", " ", "b", "e">>,
     <<"*", " ", "[", " ", "]">>}

ShortContents == {join(<<"\n">>, ls) : ls \in SeqsUpTo(Lines, MaxLines)}

\* n words "a"
Filler(n) == Rep(<<"a", " ">>, n)
Seo == <<"s", "e", "o">>

\* the keyword once among "a"s, 'before' of them before it and 'after' after:
\* the word counts at which its density passes 3, 2, 1 and 0.5 percent, and
\* the keyword as the 100th and the 101st word
DensityContents ==
    {Filler(c[1]) \o Seo \o <<" ">> \o Filler(c[2]) :
        c \in {<<0, 32>>, <<0, 33>>, <<0, 49>>, <<0, 50>>, <<0, 99>>, <<0, 100>>,
                <<0, 199>>, <<0, 200>>, <<99, 0>>, <<100, 0>>}}

SeoContents == {join(<<"\n">>, ls) : ls \in SeqsUpTo(Lines, 1)} \cup DensityContents

KeywordLists == SeqsUpTo({Seo, <<"A">>}, MaxKeywords)

\* 333 words in 9 sentences of 37 words, the keyword 4 times
EasyLongContent ==
    Rep(Seo \o <<" ">> \o Filler(35) \o <<"a", ".", " ">>
        \o Filler(36) \o <<"a", ".", " ">>, 4)
    \o Filler(36) \o <<"a", ".">>

FullContents ==
    {<<>>,
     <<"#", " ", "a">>,
     <<"#", " ", "a", "\n", "#", " ", "s", "e", "o">>,
     <<"a", "b", "a", "b", "a", "b", "a", "b">>,
     <<"#", " ">> \o Filler(300),
     Filler(299),
     EasyLongContent}

FullHeadlines ==
    {<<>>,
     <<"S", "e", "c", "r", "e", "t">>,
     Rep(<<"x">>, 44) \o <<" ", "S", "e", "c", "r", "e", "t", " ", "7">>,
     Rep(<<"x">>, 44) \o <<" ", "t", "o", "d", "a", "y", " ", "f", "a", "s", "t", " ", "?">>,
     Rep(<<"x">>, 44) \o <<" ", "t", "o", "d", "a", "y", " ", "f", "a", "s", "t", " ", "7">>}

FullKeywordLists == {<<>>, <<Seo>>, <<Seo, Seo, Seo>>}

MetaTagInputs ==
    {<<title, description, keywords>> :
        title \in {<<>>, <<"X">>}, description \in {<<"Y">>},
        keywords \in SeqsUpTo({<<"a">>, <<"b">>}, 2)}

-----------------------------------------------------------------------------
(* The optimizer and its calls *)

NoCall == "none"
NoArgs == [none |-> TRUE]
NoResult == [none |-> TRUE]

\* the environment before BlogPostOptimizer(), for a caller that is to make
\* n calls
Start(n) ==
    /\ calls_left = n
    /\ power_words_file \in {"missing", "valid", "corrupt"}
    /\ \E env \in {<<FALSE, FALSE, FALSE>>, <<TRUE, TRUE, TRUE>>,
                    <<TRUE, FALSE, TRUE>>, <<TRUE, FALSE, FALSE>>} :
           /\ nltk = env[1]
           /\ punkt = env[2]
           /\ download_ok = env[3]
    /\ pc = "new"
    /\ power_words_db = Unset
    /\ op = NoCall
    /\ args = NoArgs
    /\ raised = "none"
    /\ result = NoResult

\* main makes one call in the life of an optimizer
Init == Start(1)

\* BlogPostOptimizer(): _load_power_words, then _ensure_nltk_data
Construct ==
    /\ pc = "new"
    /\ op' = "__init__"
    /\ args' = NoArgs
    /\ result' = NoResult
    /\ LET loaded == _load_power_words(power_words_file)
       IN  /\ raised' = loaded.raised
           /\ power_words_db' = loaded.db
           /\ IF loaded.raised = "none"
              THEN /\ punkt' = _ensure_nltk_data(nltk, punkt, download_ok)
                   /\ pc' = "ready"
              ELSE /\ punkt' = punkt
                   /\ pc' = "failed"
    /\ UNCHANGED <<power_words_file, nltk, download_ok, calls_left>>

\* a call of method m with arguments a that raises e or returns r
Call(m, a, e, r) ==
    /\ pc = "ready"
    /\ calls_left > 0
    /\ calls_left' = calls_left - 1
    /\ pc' = "returned"
    /\ op' = m
    /\ args' = a
    /\ raised' = e
    /\ result' = IF e = "none" THEN r ELSE NoResult
    /\ UNCHANGED <<power_words_file, nltk, punkt, download_ok, power_words_db>>

\* the exception of a method that asks for the sentences of a text
SentencesError == IF SentTokenizeRaises THEN "LookupError" ELSE "none"

\* as if analyze_headline took the words it finds out of the dictionary
AnalyzeHeadlineConsuming(headline) ==
    /\ pc = "ready"
    /\ calls_left > 0
    /\ calls_left' = calls_left - 1
    /\ pc' = "returned"
    /\ op' = "analyze_headline"
    /\ args' = [headline |-> headline]
    /\ raised' = "none"
    /\ result' = analyze_headline(power_words_db, headline)
    /\ power_words_db' =
           [c \in DOMAIN power_words_db |->
               LET words == power_words_db[c]
                   kept == Ascending({k \in 1..Len(words) :
                                         ~SearchWholeWord(lower(headline), words[k])},
                                     1, Len(words))
               IN  [k \in 1..Len(kept) |-> words[kept[k]]]]
    /\ UNCHANGED <<power_words_file, nltk, punkt, download_ok>>

AnalyzeHeadline(headline) ==
    Call("analyze_headline", [headline |-> headline], "none",
         analyze_headline(power_words_db, headline))

AnalyzeSeo(content, keywords) ==
    Call("analyze_seo", [content |-> content, keywords |-> keywords],
         SentencesError, analyze_seo(content, keywords))

AnalyzeStructure(content) ==
    Call("analyze_structure", [content |-> content],
         SentencesError, analyze_structure(content))

AnalyzeReadability(content) ==
    Call("analyze_readability", [content |-> content],
         SentencesError, analyze_readability(content))

CalculateContentStats(content) ==
    Call("calculate_content_stats", [content |-> content],
         SentencesError, calculate_content_stats(content))

GenerateMetaTags(title, description, keywords) ==
    Call("generate_meta_tags",
         [title |-> title, description |-> description, keywords |-> keywords],
         "none", generate_meta_tags(title, description, keywords))

\* analyze_full runs the five analyses, and the first that raises ends it;
\* each analysis is made once and then named, as in the code
AnalyzeFull ==
    /\ pc = "ready"
    /\ calls_left > 0
    /\ \E content \in FullContents :
        IF SentencesError # "none"
        THEN \E keywords \in FullKeywordLists, headline \in FullHeadlines :
                 Call("analyze_full",
                      [content |-> content, headline |-> headline,
                       keywords |-> keywords],
                      SentencesError, NoResult)
        ELSE \E structure_analysis \in {analyze_structure(content)},
                readability_analysis \in {analyze_readability(content)},
                stats \in {calculate_content_stats(content)},
                keywords \in FullKeywordLists :
             \E seo_analysis \in {analyze_seo(content, keywords)},
                headline \in FullHeadlines :
             \E headline_analysis \in {analyze_headline(power_words_db, headline)} :
                 Call("analyze_full",
                      [content |-> content, headline |-> headline,
                       keywords |-> keywords],
                      "none",
                      FullReport(headline_analysis, seo_analysis,
                                 structure_analysis, readability_analysis, stats))

\* the caller takes the result; the optimizer is ready for the next call
Return ==
    /\ pc = "returned"
    /\ pc' = "ready"
    /\ op' = NoCall
    /\ args' = NoArgs
    /\ raised' = "none"
    /\ result' = NoResult
    /\ UNCHANGED <<power_words_file, nltk, punkt, download_ok, power_words_db,
                   calls_left>>

Next ==
    \/ Construct
    \/ \E headline \in Headlines : AnalyzeHeadline(headline)
    \/ \E content \in SeoContents, keywords \in KeywordLists :
           AnalyzeSeo(content, keywords)
    \/ \E content \in ShortContents : AnalyzeStructure(content)
    \/ \E content \in ShortContents : AnalyzeReadability(content)
    \/ \E content \in ShortContents : CalculateContentStats(content)
    \/ \E m \in MetaTagInputs : GenerateMetaTags(m[1], m[2], m[3])
    \/ AnalyzeFull
    \/ Return

Spec == Init /\ [][Next]_vars

-----------------------------------------------------------------------------
(* _count_syllables called on its own *)

MaxWordLen == 3

\* the words of at most MaxWordLen of these characters: vowels, an upper-case
\* vowel, a consonant
Words == SeqsUpTo({"a", "e", "E", "y", "b"}, MaxWordLen)

CountSyllables(word) ==
    Call("_count_syllables", [word |-> word], "none", _count_syllables(word))

SyllableNext ==
    \/ Construct
    \/ \E word \in Words : CountSyllables(word)
    \/ Return

SyllableSpec == Init /\ [][SyllableNext]_vars

-----------------------------------------------------------------------------
(* A caller that makes several calls on one optimizer *)

MaxCalls == 2

SessionHeadlines ==
    {<<"S", "e", "c", "r", "e", "t">>,
     <<"t", "o", "d", "a", "y", " ", "f", "a", "s", "t", "?">>}

SessionContents ==
    {<<"#", " ", "a">>,
     <<"-", " ", "s", "e", "o", ".", " ", "a", "b", "a", "b", " ", "b", "e">>}

SessionKeywordLists == {<<>>, <<Seo>>}

SessionInit == Start(MaxCalls)

SessionNext ==
    \/ Construct
    \/ \E headline \in SessionHeadlines : AnalyzeHeadline(headline)
    \/ \E content \in SessionContents, keywords \in SessionKeywordLists :
           AnalyzeSeo(content, keywords)
    \/ \E content \in SessionContents : AnalyzeStructure(content)
    \/ \E content \in SessionContents : AnalyzeReadability(content)
    \/ \E content \in SessionContents : CalculateContentStats(content)
    \/ GenerateMetaTags(<<"X">>, <<"Y">>, <<<<"a">>, <<"b">>>>)
    \/ AnalyzeFull
    \/ Return

SessionSpec == SessionInit /\ [][SessionNext]_vars

-----------------------------------------------------------------------------
(* The claims *)

\* method m has returned a result to its caller
Returned(m) == pc = "returned" /\ op = m /\ raised = "none"

\* the methods that ask for the sentences of a text
SentenceMethods ==
    {"analyze_seo", "analyze_structure", "analyze_readability",
     "calculate_content_stats"}

\* C1: constructing the optimizer always succeeds: nothing is raised, and
\* when power_words.json is missing or malformed the dictionary is the
\* built-in default of three categories.
C1_ConstructionAlwaysSucceeds ==
    pc # "new" =>
        /\ pc # "failed"
        /\ power_words_file \in {"missing", "corrupt"} =>
               power_words_db = DefaultPowerWords

\* C2: whatever the state of the tokenizer library and of its sentence data,
\* analyze_seo, analyze_structure, analyze_readability and
\* calculate_content_stats return without raising, and the sentences are those
\* of the split on ". " whenever the library cannot segment.
C2_AnalysesNeverRaise ==
    (pc = "returned" /\ op \in SentenceMethods) =>
        /\ raised = "none"
        /\ (op = "calculate_content_stats" /\ ~(nltk /\ punkt)) =>
               result.sentence_count
                   = Len(split_on(RemoveChars(args.content, {"#", "*", Backtick}),
                                  PeriodSpace))

\* C3: in every report of analyze_full the headline score, the SEO score, the
\* structure score and overall_score are all between 0 and 100.
C3_ScoresWithinRange ==
    Returned("analyze_full") =>
        /\ result.headline.score \in 0..100
        /\ result.seo.score \in 0..100
        /\ result.structure.score \in 0..100
        /\ result.overall_score \in 0..100

\* three keywords in the ideal range and prominent: 110 before the cap
C3_CapReached ==
    /\ Returned("analyze_full")
    /\ Len(args.keywords) = 3
    /\ result.seo.keyword_prominence
    /\ result.seo.score = 100

\* ten times the weighted sum of the four sub-scores of a report
WeightedTenths ==
    2 * result.headline.score + 3 * result.seo.score
    + 2 * result.structure.score
    + 3 * (100 - result.readability.complexity_score)

\* C4 as written: overall_score is the weighted sum rounded to the nearest
\* integer, a sum that ends in one half going up.
C4_RoundsHalfUp ==
    Returned("analyze_full") => result.overall_score = (WeightedTenths + 5) \div 10

\* C4: overall_score is the weighted sum of the four sub-scores rounded to the
\* nearest integer, and a sum that ends in exactly one half goes to the even
\* one of its two neighbours.
C4_RoundsHalfToEven ==
    Returned("analyze_full") =>
        LET d == 10 * result.overall_score - WeightedTenths
        IN  /\ d \in -5..5
            /\ d \in {-5, 5} => result.overall_score % 2 = 0

\* a sum that ends in one half and is rounded down
C4_HalfRoundedDown ==
    /\ Returned("analyze_full")
    /\ WeightedTenths % 10 = 5
    /\ 10 * result.overall_score = WeightedTenths - 5

\* the conditions of the five recommendations, in their order
C5_Conditions ==
    <<result.headline.score < 70,
      ~result.seo.keyword_prominence,
      result.structure.h1_count # 1,
      result.readability.flesch_kincaid_grade > 120,
      result.stats.word_count < 300>>

\* the recommendation each condition asks for
C5_Entries ==
    <<[priority |-> High, issue |-> HeadlineIssue,
       fix |-> IF result.headline.suggestions # <<>>
               THEN TryPrefix \o Head(result.headline.suggestions)
               ELSE HeadlineAdvice],
      [priority |-> High, issue |-> KeywordIssue, fix |-> KeywordFix],
      [priority |-> Medium, issue |-> H1Issue \o str(result.structure.h1_count),
       fix |-> H1Fix],
      [priority |-> Medium, issue |-> ComplexIssue, fix |-> ComplexFix],
      [priority |-> Low, issue |-> ShortIssue, fix |-> ShortFix]>>

\* C5: the recommendations of a report are those of the five whose condition
\* holds (headline score < 70, no keyword prominence, h1_count # 1 with the
\* count in the issue, grade > 12, word count < 300), each once and in that
\* order; the headline fix is the first suggestion, or the generic advice
\* when there is none.
C5_Recommendations ==
    Returned("analyze_full") =>
        LET recs == result.recommendations
            fired == {i \in 1..5 : C5_Conditions[i]}
        IN  /\ Len(recs) = Cardinality(fired)
            /\ \A i \in fired : \E p \in 1..Len(recs) : recs[p] = C5_Entries[i]
            /\ \A p, q \in 1..Len(recs) :
                   p < q => \E i, j \in fired :
                                i < j /\ recs[p] = C5_Entries[i] /\ recs[q] = C5_Entries[j]

\* all five at once, the headline one with the generic advice
C5_AllFive ==
    /\ Returned("analyze_full")
    /\ Len(result.recommendations) = 5
    /\ result.recommendations[1].fix = HeadlineAdvice

\* the words of category c of the dictionary found in the headline h, as
\* whole words; the dictionary's word lower-cased too when 'folded'
C6_Matches(c, h, folded) ==
    Cardinality({k \in 1..Len(power_words_db[c]) :
        SearchWholeWord(lower(h), IF folded THEN lower(power_words_db[c][k])
                                  ELSE power_words_db[c][k])})

\* length tier + 15 for a digit + 10 for '?'
C6_OtherPoints(h) ==
    LengthScore(Len(h))
    + (IF \E i \in 1..Len(h) : h[i] \in Digits THEN 15 ELSE 0)
    + (IF \E i \in 1..Len(h) : h[i] = "?" THEN 10 ELSE 0)

\* C6 as written: each category adds min(15 * its words matched whole-word and
\* case-insensitively, 40), and only the total is capped at 100.
C6_CapPerCategory ==
    Returned("analyze_headline") =>
        result.score
            = Min(100, C6_OtherPoints(args.headline)
                       + SumSet([c \in DOMAIN power_words_db |->
                                    Min(15 * C6_Matches(c, args.headline, TRUE), 40)],
                                DOMAIN power_words_db))

\* C6: the persuasive words add min(15 * n, 40) once, n being the number of
\* entries of all categories together that occur, as they are written in the
\* dictionary, as whole words in the lower-cased headline; the total is
\* capped at 100.
C6_CapOnAllCategories ==
    Returned("analyze_headline") =>
        result.score
            = Min(100, C6_OtherPoints(args.headline)
                       + Min(15 * SumSet([c \in DOMAIN power_words_db |->
                                             C6_Matches(c, args.headline, FALSE)],
                                         DOMAIN power_words_db), 40))

\* words of two categories found, worth more than 40 together
C6_TwoCategoriesOverCap ==
    /\ Returned("analyze_headline")
    /\ \E c, d \in DOMAIN power_words_db :
           /\ c # d
           /\ C6_Matches(c, args.headline, FALSE) >= 1
           /\ C6_Matches(d, args.headline, FALSE) >= 1
           /\ C6_Matches(c, args.headline, FALSE)
              + C6_Matches(d, args.headline, FALSE) >= 3

\* C7: the score of analyze_seo is min(100, S + P): S adds for every keyword of
\* the list 30 when its density (whole-word occurrences in the lower-cased
\* content / words * 100) is in [1, 2], 20 when it is in [0.5, 3], else 10; P
\* is 20 when a keyword occurs as a whole word in the first 100 words, else 0;
\* no keyword gives score 0 and no prominence.
C7_SeoScore ==
    Returned("analyze_seo") =>
        LET content_lower == lower(args.content)
            words == Len(split(args.content))
            n == Len(args.keywords)
            occurrences == [k \in 1..n |->
                FindAllCount(WholeWordMatches(content_lower, lower(args.keywords[k])), 1)]
            points == [k \in 1..n |->
                IF words = 0 THEN 10
                ELSE IF words <= 100 * occurrences[k] /\ 100 * occurrences[k] <= 2 * words
                THEN 30
                ELSE IF words <= 200 * occurrences[k] /\ 100 * occurrences[k] <= 3 * words
                THEN 20
                ELSE 10]
            first == join(<<" ">>, Prefix(split(content_lower), 100))
            prominent == \E k \in 1..n : SearchWholeWord(first, lower(args.keywords[k]))
        IN  /\ result.score
                   = Min(100, Sum(points, 1, n) + (IF prominent THEN 20 ELSE 0))
            /\ result.keyword_prominence = prominent
            /\ n = 0 => (result.score = 0 /\ ~result.keyword_prominence)

\* one keyword, once among 100 words: a density of exactly 1
C7_DensityExactlyOne ==
    /\ Returned("analyze_seo")
    /\ Len(args.keywords) = 1
    /\ Len(split(args.content)) = 100
    /\ result.keyword_density[args.keywords[1]] = 100
    /\ result.score = 50

\* a content with no word: only whitespace and the markdown characters that
\* the readability analysis removes
C8_NoWords(content) ==
    \A i \in 1..Len(content) :
        content[i] \in Whitespace \cup {"#", "*", Backtick, "[", "]"}

\* C8: for a content with no word every keyword density of analyze_seo is 0,
\* and reading_ease, flesch_kincaid_grade and avg_sentence_length of
\* analyze_readability are 0.
C8_ZeroWords ==
    /\ (Returned("analyze_seo") /\ C8_NoWords(args.content)) =>
           \A kw \in DOMAIN result.keyword_density : result.keyword_density[kw] = 0
    /\ (Returned("analyze_readability") /\ C8_NoWords(args.content)) =>
           /\ result.reading_ease = 0
           /\ result.flesch_kincaid_grade = 0
           /\ result.avg_sentence_length = 0

\* a content of markdown characters only, brackets among them
C8_OnlyMarkdown ==
    /\ Returned("analyze_readability")
    /\ C8_NoWords(args.content)
    /\ \E i \in 1..Len(args.content) : args.content[i] = "["
    /\ result.reading_ease = 0

\* the indexes at which a line of the content starts
C9_LineStarts(content) ==
    {i \in 1..Len(content) : i = 1 \/ content[i - 1] = "\n"}

\* the number of '#' the line at i starts with when whitespace follows them,
\* and 0 otherwise
C9_Level(content, i) ==
    LET after == RunEnd(content, {"#"}, i)
    IN  IF after <= Len(content) /\ content[after] \in Whitespace
        THEN after - i
        ELSE 0

\* C9: h1_count, h2_count and h3_count are the numbers of lines that start
\* with exactly one, two and three '#' followed by whitespace: a line is in at
\* most one of the counts, and a line of four or more '#' in none.
C9_HeadingCounts ==
    Returned("analyze_structure") =>
        LET lines(n) == {i \in C9_LineStarts(args.content) :
                            C9_Level(args.content, i) = n}
        IN  /\ result.h1_count = Cardinality(lines(1))
            /\ result.h2_count = Cardinality(lines(2))
            /\ result.h3_count = Cardinality(lines(3))

\* an H2 line and a line of four '#', and no H1
C9_H2AndFourHashes ==
    /\ Returned("analyze_structure")
    /\ \E i \in C9_LineStarts(args.content) : C9_Level(args.content, i) = 4
    /\ result.h2_count = 1
    /\ result.h1_count = 0
    /\ result.h3_count = 0

\* C10 as written: complexity_score is 100 minus the reading_ease of the same
\* result (reading_ease is held in tenths).
C10_ComplementOfField ==
    Returned("analyze_readability") =>
        10 * result.complexity_score = 1000 - result.reading_ease

\* C10: complexity_score is a whole number at most 0.5 away from 100 minus
\* the reading_ease of the same result, and equal to it exactly when that
\* reading_ease is a whole number.
C10_NearComplementOfField ==
    Returned("analyze_readability") =>
        LET d == 10 * result.complexity_score - (1000 - result.reading_ease)
        IN  /\ result.complexity_score \in 0..100
            /\ d \in -5..5
            /\ d = 0 <=> result.reading_ease % 10 = 0

\* a reading_ease that is not a whole number
C10_FractionalEase ==
    /\ Returned("analyze_readability")
    /\ result.reading_ease % 10 # 0

\* what method m gives for the arguments a on the optimizer as it was
\* constructed: the exception raised and the value returned
C11_Outcome(m, a) ==
    LET db == _load_power_words(power_words_file).db
        e == IF m \in SentenceMethods \cup {"analyze_full"}
             THEN SentencesError ELSE "none"
    IN  IF e # "none" THEN <<e, NoResult>>
        ELSE <<"none",
               CASE m = "analyze_headline" -> analyze_headline(db, a.headline)
                 [] m = "analyze_seo" -> analyze_seo(a.content, a.keywords)
                 [] m = "analyze_structure" -> analyze_structure(a.content)
                 [] m = "analyze_readability" -> analyze_readability(a.content)
                 [] m = "calculate_content_stats" -> calculate_content_stats(a.content)
                 [] m = "generate_meta_tags" ->
                        generate_meta_tags(a.title, a.description, a.keywords)
                 [] m = "analyze_full" ->
                        FullReport(analyze_headline(db, a.headline),
                                   analyze_seo(a.content, a.keywords),
                                   analyze_structure(a.content),
                                   analyze_readability(a.content),
                                   calculate_content_stats(a.content))>>

\* C11: once the optimizer is constructed no step changes its dictionary or
\* anything else it holds, and every call gives what the same call gives on
\* the optimizer as constructed, whatever calls were made before it.
C11_CallsChangeNothing ==
    [][pc # "new" =>
          /\ UNCHANGED <<power_words_db, power_words_file, nltk, punkt, download_ok>>
          /\ pc' = "returned" => <<raised', result'>> = C11_Outcome(op', args')]_vars

\* a headline call that finds a word of the dictionary, made after another
\* call
C11_LaterCall ==
    /\ Returned("analyze_headline")
    /\ calls_left <= MaxCalls - 2
    /\ result.power_words # {}
    /\ result = analyze_headline(_load_power_words(power_words_file).db, args.headline)

\* the indexes at which a maximal run of the letters a, e, i, o, u, y starts
\* in the lower-cased word
C12_RunStarts(word) ==
    LET lowered == lower(word)
        vowel(i) == lowered[i] \in {"a", "e", "i", "o", "u", "y"}
    IN  {i \in 1..Len(word) : vowel(i) /\ (i = 1 \/ ~vowel(i - 1))}

\* the lower-cased word ends in 'e'
C12_EndsInE(word) == word # <<>> /\ lower(word)[Len(word)] = "e"

\* C12: _count_syllables returns max(1, G - E), G the number of maximal runs
\* of a, e, i, o, u, y in the lower-cased word and E 1 when it ends in 'e',
\* else 0; the result is never below 1, without a vowel and for the empty
\* word too.
C12_SyllableFormula ==
    Returned("_count_syllables") =>
        LET G == Cardinality(C12_RunStarts(args.word))
            E == IF C12_EndsInE(args.word) THEN 1 ELSE 0
        IN  /\ result = (IF G - E >= 1 THEN G - E ELSE 1)
            /\ result >= 1
            /\ (G = 0 => result = 1)

\* a word whose only run of vowels is its final 'e', written in upper case
C12_OnlyFinalE ==
    /\ Returned("_count_syllables")
    /\ C12_EndsInE(args.word)
    /\ args.word[Len(args.word)] = "E"
    /\ Cardinality(C12_RunStarts(args.word)) = 1
    /\ result = 1

\* the sentences the fallback makes of a text
C13_FallbackSentences(text) == split_on(text, PeriodSpace)

\* C13: without the tokenizer library the sentences are those of the split on
\* ". ", and there is always at least one: calculate_content_stats returns
\* sentence_count >= 1, analyze_readability counts at least one sentence, and
\* the meta description of analyze_seo is made of the first sentence.
C13_SentencesNeverEmpty ==
    ~nltk =>
        /\ Returned("calculate_content_stats") =>
               /\ result.sentence_count >= 1
               /\ result.sentence_count
                      = Len(C13_FallbackSentences(
                                RemoveChars(args.content, {"#", "*", Backtick})))
        /\ Returned("analyze_readability") =>
               LET clean == RemoveChars(args.content, {"#", "*", Backtick, "[", "]"})
                   sentences == Len(C13_FallbackSentences(CollapseNewlines(clean)))
                   words == Len(split(clean))
               IN  /\ sentences >= 1
                   /\ result.avg_sentence_length = RoundHalfEven(10 * words, sentences)
        /\ Returned("analyze_seo") =>
               /\ Len(C13_FallbackSentences(args.content)) >= 1
               /\ LET first == C13_FallbackSentences(args.content)[1]
                  IN  result.meta_description
                          = IF Len(first) > 160
                            THEN SubSeq(first, 1, 157) \o <<".", ".", ".">>
                            ELSE first

\* the empty content: one sentence, and no paragraph
C13_EmptyContent ==
    /\ ~nltk
    /\ Returned("calculate_content_stats")
    /\ args.content = <<>>
    /\ result.sentence_count = 1
    /\ result.paragraph_count = 0

=============================================================================
